---- MODULE Spec2Model ----
(***************************************************************************)
(* Model of the array-slice surface of mdarray (src/src/slice.rs).         *)
(*                                                                         *)
(* A view is a base pointer (an offset into one backing allocation) paired *)
(* with a layout mapping: the dimensions, the layout classification and,   *)
(* for the Strided layout only, one stride per axis.  A Dense mapping      *)
(* stores no strides: stride(i) is derived as the product of the           *)
(* dimensions after axis i.  Axes are numbered from 0 as in the source;    *)
(* TLA+ sequences are indexed from 1, so axis i is element i + 1.          *)
(*                                                                         *)
(* Shapes are the fixed-rank tuple shapes with runtime-sized dimensions.   *)
(* An axis or a permutation is either known at compile time (Const) or     *)
(* given at run time (Dyn), since the resulting layout type depends on it. *)
(***************************************************************************)
EXTENDS Integers, Sequences, FiniteSets, TLC

\* ------------------------------------------------------------ bounds
MaxLen == 6
MaxRank == 3
MaxSteps == 2

\* usize::MAX ("!0"), the marker of a dimension to be inferred by reshape,
\* at the width of the model's integers.
UsizeMax == 2147483647

VARIABLES mem, cur, last, steps

vars == <<mem, cur, last, steps>>

\* ------------------------------------------------------------ helpers
RECURSIVE Prod(_)
Prod(s) == IF s = <<>> THEN 1 ELSE Head(s) * Prod(Tail(s))

RECURSIVE Sum(_)
Sum(s) == IF s = <<>> THEN 0 ELSE Head(s) + Sum(Tail(s))

Min(a, b) == IF a <= b THEN a ELSE b

RemoveAt(s, k) == [j \in 1..(Len(s) - 1) |-> IF j < k THEN s[j] ELSE s[j + 1]]

Reverse(s) == [j \in 1..Len(s) |-> s[Len(s) + 1 - j]]

\* Sequences over S of length exactly n, and of length at most n.
SeqsOfLen(S, n) == [1..n -> S]
SeqsUpTo(S, n) == UNION {SeqsOfLen(S, k) : k \in 0..n}

\* ------------------------------------------------------------ mapping
\* Mapping::rank, Mapping::dim, Mapping::len, Mapping::is_empty.
rank(v) == Len(v.dims)

len(v) == Prod(v.dims)

is_empty(v) == len(v) = 0

\* The strides of a Dense mapping: the cumulative product of the dimensions
\* after each axis.
DenseStrides(dims) ==
    [j \in 1..Len(dims) |-> Prod(SubSeq(dims, j + 1, Len(dims)))]

\* All strides of a mapping, materialized.
Strides(v) == IF v.layout = "Dense" THEN DenseStrides(v.dims) ELSE v.strides

\* Slice::dim and Slice::stride, with axes counted from 0.
dim(v, i) == v.dims[i + 1]

stride(v, i) == Strides(v)[i + 1]

\* Offset of an index tuple relative to the base pointer.
Offset(v, idx) == Sum([j \in 1..Len(idx) |-> idx[j] * Strides(v)[j]])

InBounds(v, idx) ==
    /\ Len(idx) = rank(v)
    /\ \A j \in 1..Len(idx) : idx[j] >= 0 /\ idx[j] < v.dims[j]

\* A mapping is contiguous when its strides are the row-major ones; the
\* stride of an axis of extent 1 carries no information, and an empty
\* mapping is contiguous.
is_contiguous(v) ==
    \/ v.layout = "Dense"
    \/ is_empty(v)
    \/ \A j \in 1..rank(v) :
           v.dims[j] = 1 \/ v.strides[j] = DenseStrides(v.dims)[j]

\* The index tuple at position k (from 0) of the row-major traversal of a
\* shape: the last axis varies fastest.
RowMajorIdx(dims, k) ==
    [j \in 1..Len(dims) |->
        (k \div Prod(SubSeq(dims, j + 1, Len(dims)))) % dims[j]]

\* The memory offsets a view visits in row-major order, and the elements.
Offsets(v) == [k \in 1..len(v) |-> v.ptr + Offset(v, RowMajorIdx(v.dims, k - 1))]

Elems(m, v) == [k \in 1..len(v) |-> m[Offsets(v)[k] + 1]]

MkView(p, d, s, l) == [ptr |-> p, dims |-> d, strides |-> s, layout |-> l]

MkDense(p, d) == MkView(p, d, <<>>, "Dense")

\* Builds a view in layout l from materialized strides; a Dense mapping
\* keeps none.
WithLayout(p, d, s, l) ==
    IF l = "Dense" THEN MkDense(p, d) ELSE MkView(p, d, s, "Strided")

NoView == MkView(-1, <<>>, <<>>, "None")

\* The outcome of an operation: a panic, or the views it returns.
Panic == [ok |-> FALSE, views |-> <<>>]

Ok1(v) == [ok |-> TRUE, views |-> <<v>>]

Ok2(v, w) == [ok |-> TRUE, views |-> <<v, w>>]

\* ------------------------------------------------------------ layout rules
\* Slice::as_ptr, Slice::mapping and View::new_unchecked: a view is the
\* pairing of a base pointer with a mapping.
as_ptr(v) == v.ptr

mapping(v) == [dims |-> v.dims, strides |-> v.strides, layout |-> v.layout]

new_unchecked(p, m) == MkView(p, m.dims, m.strides, m.layout)

\* A mapping in layout l from materialized strides.
MkMapping(d, s, l) ==
    IF l = "Dense"
    THEN [dims |-> d, strides |-> <<>>, layout |-> "Dense"]
    ELSE [dims |-> d, strides |-> s, layout |-> "Strided"]

\* Shape::Layout<L>: a shape of rank 0 selects L, any other shape Strided.
ShapeLayout(r, l) == IF r = 0 THEN l ELSE "Strided"

\* A Split that keeps the layout for every axis known at compile time.
SplitLayoutAnyConstAxis(axis, l) == IF axis.const THEN l ELSE "Strided"

\* Split<A, S, L>: the layout after indexing or splitting axis A, selected
\* by the dimensions before the axis.  Only a compile-time first axis keeps
\* the layout.
SplitLayout(axis, l) == IF axis.const THEN ShapeLayout(axis.n, l) ELSE "Strided"

IsPermutation(order, r) ==
    /\ Len(order) = r
    /\ \A j \in 1..r : order[j] >= 0 /\ order[j] < r
    /\ \A j, k \in 1..r : j # k => order[j] # order[k]

IsIdentity(order) == \A j \in 1..Len(order) : order[j] = j - 1

\* Permutation::Layout<L>: only an identity permutation known at compile
\* time keeps the layout.
PermLayout(perm, l) ==
    IF perm.const /\ IsIdentity(perm.order) THEN l ELSE "Strided"

\* ------------------------------------------------------------ Mapping
\* Mapping::remove_dim and Mapping::resize_dim.
MappingRemoveDim(m, k, l) ==
    MkMapping(RemoveAt(m.dims, k + 1), RemoveAt(Strides(m), k + 1), l)

MappingResizeDim(m, k, n, l) ==
    MkMapping([m.dims EXCEPT ![k + 1] = n], Strides(m), l)

\* Mapping::permute: dims and strides reordered by the axis order.
MappingPermute(m, order, l) ==
    MkMapping([j \in 1..Len(order) |-> m.dims[order[j] + 1]],
              [j \in 1..Len(order) |-> Strides(m)[order[j] + 1]], l)

\* Mapping::transpose: the axis order reversed.
MappingTranspose(m, l) == MkMapping(Reverse(m.dims), Reverse(Strides(m)), l)

\* Shape::reshape inferring a dimension by truncating division, without
\* the check that the length is divisible.
ShapeReshapeTruncating(oldLen, shape) ==
    LET inferred == {j \in 1..Len(shape) : shape[j] = UsizeMax}
        ones == [j \in 1..Len(shape) |-> IF j \in inferred THEN 1 ELSE shape[j]]
        newLen == Prod(ones)
    IN  IF Cardinality(inferred) > 1 THEN [ok |-> FALSE, dims |-> <<>>]
        ELSE IF inferred = {}
        THEN [ok |-> newLen = oldLen, dims |-> IF newLen = oldLen THEN ones ELSE <<>>]
        ELSE IF newLen = 0 THEN [ok |-> FALSE, dims |-> <<>>]
        ELSE [ok |-> TRUE,
              dims |-> [j \in 1..Len(shape) |->
                           IF j \in inferred THEN oldLen \div newLen ELSE ones[j]]]

\* Shape::reshape: resolves the target shape against the current length.
\* At most one dimension may be usize::MAX; it is inferred from the length
\* and the other dimensions.
ShapeReshape(oldLen, shape) ==
    LET inferred == {j \in 1..Len(shape) : shape[j] = UsizeMax}
        ones == [j \in 1..Len(shape) |-> IF j \in inferred THEN 1 ELSE shape[j]]
        newLen == Prod(ones)
    IN  IF Cardinality(inferred) > 1 THEN [ok |-> FALSE, dims |-> <<>>]
        ELSE IF inferred = {}
        THEN [ok |-> newLen = oldLen, dims |-> IF newLen = oldLen THEN ones ELSE <<>>]
        ELSE IF newLen = 0 \/ oldLen % newLen # 0 THEN [ok |-> FALSE, dims |-> <<>>]
        ELSE [ok |-> TRUE,
              dims |-> [j \in 1..Len(shape) |->
                           IF j \in inferred THEN oldLen \div newLen ELSE ones[j]]]

\* StridedMapping::reshape walks the old axes from the innermost outwards,
\* grouping them into regions; the new dimensions are laid over each region
\* with strides growing from the region's innermost stride.  Old axes that
\* are merged into one region must be contiguous with one another.
RECURSIVE Consume(_, _)
Consume(new, st) ==
    IF st.k > 0 /\ st.newLen * new[st.k] <= st.oldLen
    THEN Consume(new, [st EXCEPT !.ns[st.k] = st.newStride,
                                 !.newLen = st.newLen * new[st.k],
                                 !.newStride = st.newStride * new[st.k],
                                 !.k = st.k - 1])
    ELSE st

RECURSIVE Regions(_, _, _, _)
Regions(m, new, i, st) ==
    IF i = 0 THEN st
    ELSE IF m.dims[i] = 1 THEN Regions(m, new, i - 1, st)
    ELSE LET s == m.strides[i]
             a == IF st.oldLen = st.newLen
                  THEN [st EXCEPT !.oldLen = 1, !.newLen = 1,
                                  !.oldStride = s, !.newStride = s]
                  ELSE [st EXCEPT !.valid = st.valid /\ st.oldStride = s]
             b == [a EXCEPT !.oldLen = a.oldLen * m.dims[i],
                            !.oldStride = a.oldStride * m.dims[i]]
         IN  Regions(m, new, i - 1, Consume(new, b))

RECURSIVE Remaining(_)
Remaining(st) ==
    IF st.k = 0 THEN st
    ELSE Remaining([st EXCEPT !.ns[st.k] = st.newStride, !.k = st.k - 1])

StridedReshape(m, new) ==
    LET st0 == [oldLen |-> 1, newLen |-> 1, oldStride |-> 1, newStride |-> 1,
                valid |-> TRUE, k |-> Len(new), ns |-> [j \in 1..Len(new) |-> 0]]
        st == Remaining(Regions(m, new, Len(m.dims), st0))
    IN  IF Prod(new) = 0
        THEN [ok |-> TRUE, strides |-> DenseStrides(new)]
        ELSE [ok |-> st.valid /\ st.oldLen = st.newLen, strides |-> st.ns]

\* Mapping::reshape: a Dense mapping takes any shape of equal length, a
\* Strided mapping only one its strides are compatible with.
MappingReshape(m, shape) ==
    LET r == ShapeReshape(Prod(m.dims), shape)
        t == StridedReshape(m, r.dims)
    IN  IF ~r.ok THEN [ok |-> FALSE, mapping |-> MkMapping(<<>>, <<>>, "Dense")]
        ELSE IF m.layout = "Dense"
        THEN [ok |-> TRUE, mapping |-> MkMapping(r.dims, <<>>, "Dense")]
        ELSE IF ~t.ok THEN [ok |-> FALSE, mapping |-> MkMapping(<<>>, <<>>, "Dense")]
        ELSE [ok |-> TRUE, mapping |-> MkMapping(r.dims, t.strides, "Strided")]

\* ------------------------------------------------------------ View
Const(a) == [const |-> TRUE, n |-> a]

Dyn(a) == [const |-> FALSE, n |-> a]

\* View::axis_at with the index checked off by one (index > dim).
ViewAxisAtOffByOne(p, m, axis, index) ==
    IF axis.n >= rank(m) THEN Panic
    ELSE IF index > dim(m, axis.n) THEN Panic
    ELSE Ok1(new_unchecked(p + index * stride(m, axis.n),
                           MappingRemoveDim(m, axis.n, SplitLayout(axis, m.layout))))

\* View::axis_at: the view after indexing one axis.  The base pointer is
\* shifted by index * stride(axis) and the axis is removed from the shape.
ViewAxisAt(p, m, axis, index) ==
    IF axis.n >= rank(m) THEN Panic
    ELSE IF index >= dim(m, axis.n) THEN Panic
    ELSE Ok1(new_unchecked(p + index * stride(m, axis.n),
                           MappingRemoveDim(m, axis.n, SplitLayout(axis, m.layout))))

\* View::split_axis_at with the second pointer shifted by mid elements,
\* the stride of the axis forgotten.
ViewSplitAxisAtUnitStride(p, m, axis, mid) ==
    IF axis.n >= rank(m) THEN Panic
    ELSE IF mid > dim(m, axis.n) THEN Panic
    ELSE LET l == SplitLayout(axis, m.layout)
         IN  Ok2(new_unchecked(p, MappingResizeDim(m, axis.n, mid, l)),
                 new_unchecked(p + mid,
                               MappingResizeDim(m, axis.n, dim(m, axis.n) - mid, l)))

\* View::split_axis_at: the two views over [0, mid) and [mid, dim(axis)) of
\* one axis; the second one's base pointer is shifted by mid * stride(axis).
ViewSplitAxisAt(p, m, axis, mid) ==
    IF axis.n >= rank(m) THEN Panic
    ELSE IF mid > dim(m, axis.n) THEN Panic
    ELSE LET l == SplitLayout(axis, m.layout)
         IN  Ok2(new_unchecked(p, MappingResizeDim(m, axis.n, mid, l)),
                 new_unchecked(p + mid * stride(m, axis.n),
                               MappingResizeDim(m, axis.n, dim(m, axis.n) - mid, l)))

\* The components of a compound index: a single index, a range lo..hi, or
\* the full range.
Idx(i) == [kind |-> "idx", lo |-> i, hi |-> i]

Range(a, b) == [kind |-> "range", lo |-> a, hi |-> b]

Full == [kind |-> "full", lo |-> 0, hi |-> 0]

\* DimIndex: a component is checked against the extent of its axis.
CompValid(c, d) ==
    CASE c.kind = "idx" -> c.lo < d
      [] c.kind = "range" -> c.lo <= c.hi /\ c.hi <= d
      [] OTHER -> TRUE

CompStart(c) == IF c.kind = "full" THEN 0 ELSE c.lo

CompSize(c, d) == IF c.kind = "full" THEN d ELSE c.hi - c.lo

\* ViewIndex::Layout<L>: the layout is kept when, after the leading single
\* indices, only the first remaining axis is restricted to a range and all
\* later axes are taken in full; any other compound index gives Strided.
RECURSIVE DropIdx(_)
DropIdx(comps) ==
    IF comps # <<>> /\ Head(comps).kind = "idx" THEN DropIdx(Tail(comps)) ELSE comps

ViewIndexLayout(comps, l) ==
    LET rest == DropIdx(comps)
    IN  IF \A j \in 2..Len(rest) : rest[j].kind = "full" THEN l ELSE "Strided"

\* The axes a compound index keeps (those not given a single index), in
\* order, among the first n.
RECURSIVE KeptAxes(_, _)
KeptAxes(comps, n) ==
    IF n = 0 THEN <<>>
    ELSE IF comps[n].kind # "idx" THEN Append(KeptAxes(comps, n - 1), n)
    ELSE KeptAxes(comps, n - 1)

\* View::into_view: every component is validated first; then the base
\* pointer is shifted by the start of every component, the indexed axes are
\* removed and the ranged axes resized.
IntoView(v, comps) ==
    IF \E j \in 1..rank(v) : ~CompValid(comps[j], v.dims[j]) THEN Panic
    ELSE LET kept == KeptAxes(comps, rank(v))
             p == v.ptr + Sum([j \in 1..rank(v) |-> CompStart(comps[j]) * Strides(v)[j]])
             d == [j \in 1..Len(kept) |-> CompSize(comps[kept[j]], v.dims[kept[j]])]
             s == [j \in 1..Len(kept) |-> Strides(v)[kept[j]]]
         IN  Ok1(WithLayout(p, d, s, ViewIndexLayout(comps, v.layout)))

\* View::into_diag: the diagonal of a rank-2 view, index > 0 above and
\* index < 0 below the main diagonal.
IntoDiag(v, index) ==
    LET rows == v.dims[1]
        cols == v.dims[2]
        st == Strides(v)[1] + Strides(v)[2]
    IN  IF index >= 0
        THEN IF index > cols THEN Panic
             ELSE Ok1(MkView(v.ptr + index * Strides(v)[2],
                             <<Min(rows, cols - index)>>, <<st>>, "Strided"))
        ELSE IF -index > rows THEN Panic
             ELSE Ok1(MkView(v.ptr + (-index) * Strides(v)[1],
                             <<Min(rows + index, cols)>>, <<st>>, "Strided"))

\* ------------------------------------------------------------ Slice
\* Slice::axis_at and Slice::at.
axis_at(v, axis, index) == ViewAxisAt(as_ptr(v), mapping(v), axis, index)

at(v, index) == axis_at(v, Const(0), index)

\* Slice::split_axis_at and Slice::split_at.
split_axis_at(v, axis, mid) == ViewSplitAxisAt(as_ptr(v), mapping(v), axis, mid)

split_at(v, mid) == split_axis_at(v, Const(0), mid)

\* A permute that reorders the shape only, the result laid out row-major.
PermuteShapeOnly(v, perm) ==
    IF ~IsPermutation(perm.order, rank(v)) THEN Panic
    ELSE LET d == [j \in 1..rank(v) |-> v.dims[perm.order[j] + 1]]
         IN  Ok1(WithLayout(as_ptr(v), d, DenseStrides(d), PermLayout(perm, v.layout)))

\* A permute that sends axis i of the source to axis order[i] of the
\* result, instead of taking axis i of the result from axis order[i].
PermuteScatter(v, perm) ==
    IF ~IsPermutation(perm.order, rank(v)) THEN Panic
    ELSE LET inv == [j \in 1..rank(v) |->
                        (CHOOSE i \in 1..rank(v) : perm.order[i] = j - 1) - 1]
         IN  Ok1(new_unchecked(as_ptr(v),
                               MappingPermute(mapping(v), inv,
                                              PermLayout(perm, v.layout))))

\* Slice::permute: panics unless the axis order is a permutation.
permute(v, perm) ==
    IF ~IsPermutation(perm.order, rank(v)) THEN Panic
    ELSE Ok1(new_unchecked(as_ptr(v),
                           MappingPermute(mapping(v), perm.order,
                                          PermLayout(perm, v.layout))))

\* A transpose typed with the layout of its input.
TransposeKeepsLayout(v) ==
    Ok1(new_unchecked(as_ptr(v), MappingTranspose(mapping(v), v.layout)))

\* Slice::transpose: the layout is the one selected by the tail of the
\* shape, <S::Tail as Shape>::Layout<L>.
transpose(v) ==
    LET tail == IF rank(v) = 0 THEN 0 ELSE rank(v) - 1
    IN  Ok1(new_unchecked(as_ptr(v),
                          MappingTranspose(mapping(v), ShapeLayout(tail, v.layout))))

\* A reorder that exchanges the first two axes only.
ReorderFirstTwoAxes(v) ==
    IF rank(v) < 2 THEN Ok1(v)
    ELSE LET order == [j \in 1..rank(v) |-> IF j = 1 THEN 1 ELSE IF j = 2 THEN 0 ELSE j - 1]
         IN  Ok1(new_unchecked(as_ptr(v),
                               MappingPermute(mapping(v), order, ShapeLayout(rank(v) - 1, v.layout))))

\* Slice::reorder and Slice::reorder_mut (deprecated): Mapping::transpose
\* again, typed <S::Tail as Shape>::Layout<L>.
reorder(v) ==
    LET tail == IF rank(v) = 0 THEN 0 ELSE rank(v) - 1
    IN  Ok1(new_unchecked(as_ptr(v),
                          MappingTranspose(mapping(v), ShapeLayout(tail, v.layout))))

\* A reshape that takes every mapping for a contiguous one: only the
\* length is checked and the strides restart from the innermost one.
ReshapeLengthOnly(v, shape) ==
    LET r == ShapeReshape(len(v), shape)
        inner == IF rank(v) = 0 THEN 1 ELSE Strides(v)[rank(v)]
    IN  IF ~r.ok THEN Panic
        ELSE Ok1(WithLayout(as_ptr(v), r.dims,
                            [j \in 1..Len(r.dims) |-> inner * DenseStrides(r.dims)[j]],
                            v.layout))

\* Slice::reshape.
reshape(v, shape) ==
    LET r == MappingReshape(mapping(v), shape)
    IN  IF r.ok THEN Ok1(new_unchecked(as_ptr(v), r.mapping)) ELSE Panic

\* A flatten that asks for the extent of the first axis instead of len().
FlattenFirstAxis(v) == reshape(v, <<IF rank(v) = 0 THEN 1 ELSE dim(v, 0)>>)

\* A flatten that takes the memory to be contiguous without asking.
FlattenUnchecked(v) ==
    Ok1(WithLayout(as_ptr(v), <<len(v)>>, <<1>>, v.layout))

\* Slice::flatten and Slice::flatten_mut.
flatten(v) == reshape(v, <<len(v)>>)

\* A row that indexes the last axis instead of the first.
RowIndexesLastAxis(v, index) ==
    IF rank(v) # 2 THEN Panic
    ELSE LET r == reshape(v, v.dims)
         IN  IF r.ok THEN IntoView(r.views[1], <<Full, Idx(index)>>) ELSE Panic

\* Slice::row, Slice::col and Slice::diag: the shape is first converted to
\* a rank-2 shape (from_dims panics for any other rank), the view reshaped
\* to it and then indexed.

row(v, index) ==
    IF rank(v) # 2 THEN Panic
    ELSE LET r == reshape(v, v.dims)
         IN  IF r.ok THEN IntoView(r.views[1], <<Idx(index), Full>>) ELSE Panic

col(v, index) ==
    IF rank(v) # 2 THEN Panic
    ELSE LET r == reshape(v, v.dims)
         IN  IF r.ok THEN IntoView(r.views[1], <<Full, Idx(index)>>) ELSE Panic

diag(v, index) ==
    IF rank(v) # 2 THEN Panic
    ELSE LET r == reshape(v, v.dims)
         IN  IF r.ok THEN IntoDiag(r.views[1], index) ELSE Panic

\* Slice::view and Slice::view_mut: into_view on the slice's expression
\* (view_mut differs only in the mutability of the pointer).
expr(v) == new_unchecked(as_ptr(v), mapping(v))

view(v, comps) == IntoView(expr(v), comps)

\* SliceIndex::index for a multi-index: every component is checked, then
\* the element at the offset is referenced.
SliceIndexIndex(v, idx) ==
    IF \E j \in 1..rank(v) : idx[j] >= v.dims[j]
    THEN [ok |-> FALSE, off |-> -1]
    ELSE [ok |-> TRUE, off |-> v.ptr + Offset(v, idx)]

\* SliceIndex::get_unchecked for a multi-index: no check.  An index out of
\* bounds is undefined behaviour: any element may be referenced, or the
\* access may trap.
SliceIndexGetUnchecked(v, idx, ub) ==
    IF InBounds(v, idx) THEN [ok |-> TRUE, off |-> v.ptr + Offset(v, idx)] ELSE ub

\* An index operator that checks only the first component.
IndexFirstChecked(v, idx) ==
    IF rank(v) > 0 /\ idx[1] >= v.dims[1]
    THEN [ok |-> FALSE, off |-> -1]
    ELSE [ok |-> TRUE, off |-> v.ptr + Offset(v, idx)]

\* An unchecked access that takes the memory to be contiguous.
GetUncheckedContiguous(v, idx, ub) ==
    [ok |-> TRUE,
     off |-> v.ptr + Sum([j \in 1..Len(idx) |-> idx[j] * DenseStrides(v.dims)[j]])]

\* Index::index, IndexMut::index_mut and Slice::get_unchecked.
index(v, idx) == SliceIndexIndex(v, idx)

get_unchecked(v, idx, ub) == SliceIndexGetUnchecked(v, idx, ub)

\* Slice::iter: the elements in row-major order.
iter(m, v) == Elems(m, expr(v))

\* Slice::outer_expr: the views over the first axis, one per position,
\* each with the layout of the source.
outer_expr(v) ==
    [k \in 1..dim(v, 0) |-> axis_at(v, Const(0), k - 1).views[1]]

\* Slice::remap to the Dense layout followed by [..]: the len() elements
\* of the allocation from the base pointer on.
RemapFull(m, v) == SubSeq(m, v.ptr + 1, v.ptr + len(v))

\* A search that takes the flattened fast path whatever the layout.
ContainsFlattened(m, v, x) ==
    \E k \in 1..len(v) : RemapFull(m, v)[k] = x

\* contains: a Dense view is searched as flat memory, a Strided view of
\* rank below 2 element by element, any other one view by view over its
\* first axis.
RECURSIVE contains(_, _, _)
contains(m, v, x) ==
    IF v.layout = "Dense"
    THEN \E k \in 1..len(v) : RemapFull(m, v)[k] = x
    ELSE IF rank(v) < 2
    THEN \E k \in 1..len(v) : iter(m, v)[k] = x
    ELSE \E k \in 1..dim(v, 0) : contains(m, outer_expr(v)[k], x)

\* ------------------------------------------------------------ expressions
\* Zip: two shapes are broadcast-compatible when one of them has rank 0 or,
\* axis by axis, the extents are equal or one of them is 1.  (Shapes of
\* two different ranks above 0 are never zipped here.)
BroadcastCompatible(a, b) ==
    \/ a = <<>>
    \/ b = <<>>
    \/ /\ Len(a) = Len(b)
       /\ \A j \in 1..Len(a) : a[j] = b[j] \/ a[j] = 1 \/ b[j] = 1

\* The shape a zip is traversed over: an axis of extent 1 takes the extent
\* of the other side.
BroadcastShape(a, b) ==
    IF a = <<>> THEN b
    ELSE IF b = <<>> THEN a
    ELSE [j \in 1..Len(a) |-> IF a[j] = 1 THEN b[j] ELSE a[j]]

\* The index one side of a zip is read at: position 0 on every axis of
\* extent 1 that is replicated, nothing for a side of rank 0.
BroadcastIndex(dims, i) ==
    [j \in 1..Len(dims) |-> IF dims[j] = 1 THEN 0 ELSE i[j]]

\* The expression an array slice is zipped with or assigned from: a Dense
\* array of its own with the given shape, holding 11, 12, ... in row-major
\* order.  An item of it is named by its row-major position, from 0.
SourcePosition(dims, i) == Offset(MkDense(0, dims), BroadcastIndex(dims, i))

SourceItem(pos) == 11 + pos

\* Zip::new and the traversal of the zip: the shapes are checked when the
\* zip is built; it then yields, in row-major order of the broadcast
\* shape, the offset of an element of the view paired with the position
\* of an item of the source.
Zip(v, b) ==
    IF ~BroadcastCompatible(v.dims, b) THEN [ok |-> FALSE, pairs |-> <<>>]
    ELSE LET shape == BroadcastShape(v.dims, b)
         IN  [ok |-> TRUE,
              pairs |-> [k \in 1..Prod(shape) |->
                  LET i == RowMajorIdx(shape, k - 1)
                  IN  <<v.ptr + Offset(v, BroadcastIndex(v.dims, i)),
                        SourcePosition(b, i)>>]]

\* for_each over the pairs of a zip, cloning every item into its element.
RECURSIVE ForEachCloneTo(_, _)
ForEachCloneTo(m, pairs) ==
    IF pairs = <<>> THEN m
    ELSE ForEachCloneTo([m EXCEPT ![Head(pairs)[1] + 1] = SourceItem(Head(pairs)[2])],
                        Tail(pairs))

\* A zip in the manner of two iterators: the k-th element of the view is
\* paired with the k-th item of the source, until either side runs out.
ZipWithIterators(v, b) ==
    [ok |-> BroadcastCompatible(v.dims, b),
     pairs |-> IF ~BroadcastCompatible(v.dims, b) THEN <<>>
               ELSE [k \in 1..Min(len(v), Prod(b)) |-> <<Offsets(v)[k], k - 1>>]]

\* Apply::zip_with for &Slice and &mut Slice: the zip of the slice's
\* expression with the source, mapped (the map is applied pair by pair).
zip_with(v, b) == Zip(expr(v), b)

\* An assignment that checks the shapes while it writes: the items that
\* line up are written before the mismatch is reported.
AssignChecksLate(m, v, b) ==
    LET z == Zip(expr(v), b)
        n == Min(len(v), Prod(b))
    IN  IF z.ok THEN [ok |-> TRUE, pairs |-> z.pairs, mem |-> ForEachCloneTo(m, z.pairs)]
        ELSE [ok |-> FALSE, pairs |-> <<>>,
              mem |-> ForEachCloneTo(m, [k \in 1..n |-> <<Offsets(v)[k], k - 1>>])]

\* Slice::assign: the zip is built, and with it the shapes checked, before
\* for_each writes the first element.
assign(m, v, b) ==
    LET z == Zip(expr(v), b)
    IN  IF z.ok THEN [ok |-> TRUE, pairs |-> z.pairs, mem |-> ForEachCloneTo(m, z.pairs)]
        ELSE [ok |-> FALSE, pairs |-> <<>>, mem |-> m]

\* ------------------------------------------------------------ state
\* The shapes of at most MaxRank axes that fit an allocation of MaxLen
\* elements.  Views with an axis of extent 0 arise from these by splitting.
Shapes == {d \in SeqsUpTo(1..MaxLen, MaxRank) : Prod(d) <= MaxLen}

\* The values an element is overwritten with; the allocation starts out
\* holding 1, 2, 3, ...
Values == {0}

\* What the last operation was applied to, with which arguments, and what
\* it returned: ok is FALSE after a panic, views are the views returned,
\* off the offset of the element referenced (-1: none), mem the allocation
\* before the operation.  A search records the value x looked for and
\* whether it was found; a zip records the pairs it produces.
NoOp == [op |-> "none", src |-> NoView, ok |-> TRUE, views |-> <<>>, off |-> -1,
         mem |-> <<>>, axis |-> Const(0), index |-> 0, shape |-> <<>>,
         perm |-> [const |-> TRUE, order |-> <<>>], comps |-> <<>>, idx |-> <<>>,
         x |-> 0, found |-> FALSE, pairs |-> <<>>]

Init ==
    /\ \E d \in Shapes :
           /\ cur = MkDense(0, d)
           /\ mem = [i \in 1..Prod(d) |-> i]
    /\ last = NoOp
    /\ steps = 0

\* The runs explored are chains of at most MaxSteps operations.  A panic
\* aborts the caller, so no operation follows one; an element access, a
\* search or a traversal ends the chain, since it returns no view.
Accesses == {"index", "index_mut", "get_unchecked", "contains", "zip_with", "assign"}

Running == steps < MaxSteps /\ last.ok /\ last.op \notin Accesses

\* An operation that returns views: after a panic the caller keeps the view
\* it had; otherwise it goes on with one of the views returned.
Returns(op, r, pick, args) ==
    /\ steps' = steps + 1
    /\ last' = [args EXCEPT !.op = op, !.src = cur, !.ok = r.ok,
                            !.views = r.views, !.mem = mem]
    /\ cur' = IF r.ok THEN r.views[pick] ELSE cur
    /\ mem' = mem

\* The axes an operation may be called with: every axis of the view and the
\* first one past its rank, known at compile time or not.
Axes(v) == {[const |-> c, n |-> a] : c \in BOOLEAN, a \in 0..rank(v)}

\* The extent of an axis, 0 for an axis out of bounds.
Extent(v, a) == IF a < rank(v) THEN dim(v, a) ELSE 0

AxisAt ==
    Running /\
    \E axis \in Axes(cur) : \E i \in 0..Extent(cur, axis.n) :
        Returns("axis_at", axis_at(cur, axis, i), 1,
                [NoOp EXCEPT !.axis = axis, !.index = i])

At ==
    Running /\
    \E i \in 0..Extent(cur, 0) :
        Returns("at", at(cur, i), 1, [NoOp EXCEPT !.index = i])

SplitAxisAt ==
    Running /\
    \E axis \in Axes(cur) : \E mid \in 0..(Extent(cur, axis.n) + 1) : \E h \in 1..2 :
        Returns("split_axis_at", split_axis_at(cur, axis, mid), h,
                [NoOp EXCEPT !.axis = axis, !.index = mid])

SplitAt ==
    Running /\
    \E mid \in 0..(Extent(cur, 0) + 1) : \E h \in 1..2 :
        Returns("split_at", split_at(cur, mid), h, [NoOp EXCEPT !.index = mid])

\* The permutations of the axes 0..r-1.
AxisPermutations(r) == {o \in SeqsOfLen(0..(r - 1), r) : IsPermutation(o, r)}

\* The axis orders permute is called with: every permutation of the view's
\* axes, and orders that are none: one with a repeated axis, one naming an
\* axis out of bounds, one an axis too short and one an axis too long.
Orders(v) ==
    AxisPermutations(rank(v))
        \cup {[j \in 1..rank(v) |-> 0], [j \in 1..rank(v) |-> j]}
        \cup {[j \in 1..(rank(v) + 1) |-> j - 1]}
        \cup (IF rank(v) > 0 THEN {[j \in 1..(rank(v) - 1) |-> j - 1]} ELSE {})

Permute ==
    Running /\
    \E c \in BOOLEAN : \E o \in Orders(cur) :
        LET perm == [const |-> c, order |-> o]
        IN  Returns("permute", permute(cur, perm), 1, [NoOp EXCEPT !.perm = perm])

Transpose == Running /\ Returns("transpose", transpose(cur), 1, NoOp)

Reorder == Running /\ Returns("reorder", reorder(cur), 1, NoOp)

\* The shapes reshape is called with: dimensions from 1 to one more than
\* the view's length, or usize::MAX, or (up to rank 2) 0.  A shape given in
\* full has the view's length or one more; the given dimensions of a shape
\* to be inferred do not exceed the length by more than one.
Given(t) == [j \in 1..Len(t) |-> IF t[j] = UsizeMax THEN 1 ELSE t[j]]

Targets(v) ==
    {t \in SeqsUpTo((1..(len(v) + 1)) \cup {UsizeMax}, MaxRank) :
        IF Given(t) = t
        THEN Prod(t) \in {len(v), len(v) + 1}
        ELSE Prod(Given(t)) <= len(v) + 1}
        \cup SeqsUpTo({0, 1, UsizeMax}, 2)

Reshape ==
    Running /\
    \E t \in Targets(cur) :
        Returns("reshape", reshape(cur, t), 1, [NoOp EXCEPT !.shape = t])

Flatten == Running /\ Returns("flatten", flatten(cur), 1, NoOp)

Row ==
    Running /\
    \E i \in 0..Extent(cur, 0) :
        Returns("row", row(cur, i), 1, [NoOp EXCEPT !.index = i])

Col ==
    Running /\
    \E i \in 0..Extent(cur, 1) :
        Returns("col", col(cur, i), 1, [NoOp EXCEPT !.index = i])

Diag ==
    Running /\
    \E i \in (-(Extent(cur, 0) + 1))..(Extent(cur, 1) + 1) :
        Returns("diag", diag(cur, i), 1, [NoOp EXCEPT !.index = i])

\* The components a compound index may hold for an axis of extent d: the
\* full range, every single index up to d (out of range), the range 1..d
\* (inverted when d = 0) and the range 0..d+1 (out of range).
Comps(d) ==
    {Full, Range(1, d), Range(0, d + 1)} \cup {Idx(i) : i \in 0..d}

CompoundIndexes(v) ==
    {c \in SeqsOfLen(UNION {Comps(v.dims[j]) : j \in 1..rank(v)}, rank(v)) :
        \A j \in 1..rank(v) : c[j] \in Comps(v.dims[j])}

ViewOp ==
    Running /\
    \E c \in CompoundIndexes(cur) :
        Returns("view", view(cur, c), 1, [NoOp EXCEPT !.comps = c])

\* An operation that references one element: the view is kept.
References(op, r, idx, m) ==
    /\ steps' = steps + 1
    /\ last' = [NoOp EXCEPT !.op = op, !.src = cur, !.ok = r.ok, !.off = r.off,
                            !.mem = mem, !.idx = idx]
    /\ cur' = cur
    /\ mem' = m

\* The multi-indexes an element is accessed with: every component up to
\* the extent of its axis, the extent itself being out of range.
Indexes(v) ==
    {i \in SeqsOfLen(0..MaxLen, rank(v)) : \A j \in 1..rank(v) : i[j] <= v.dims[j]}

\* self[idx]: the element is read.
IndexOp ==
    Running /\
    \E idx \in Indexes(cur) :
        References("index", index(cur, idx), idx, mem)

\* self[idx] = x: the element is overwritten.
IndexMut ==
    Running /\
    \E idx \in Indexes(cur) : \E x \in Values :
        LET r == index(cur, idx)
        IN  References("index_mut", r, idx,
                       IF r.ok THEN [mem EXCEPT ![r.off + 1] = x] ELSE mem)

\* What an access out of bounds may do: reference any element of the
\* allocation, or trap.
Undefined == {[ok |-> TRUE, off |-> o] : o \in 0..(Len(mem) - 1)}
                 \cup {[ok |-> FALSE, off |-> -1]}

GetUnchecked ==
    Running /\
    \E idx \in Indexes(cur) :
      \E ub \in IF InBounds(cur, idx) THEN {[ok |-> FALSE, off |-> -1]} ELSE Undefined :
        References("get_unchecked", get_unchecked(cur, idx, ub), idx, mem)

\* self.contains(&x), for every value of the allocation and one that is
\* nowhere in it.
Contains ==
    Running /\
    \E x \in 0..Len(mem) :
        /\ steps' = steps + 1
        /\ last' = [NoOp EXCEPT !.op = "contains", !.src = cur, !.mem = mem,
                                !.x = x, !.found = contains(mem, cur, x)]
        /\ UNCHANGED <<cur, mem>>

\* The shapes of the expressions a view is zipped with: the rank-0 shape
\* and the shapes of the view's rank whose extents are 1, the extent of the
\* view, or one more.
SourceShapes(v) ==
    {<<>>} \cup {b \in SeqsOfLen(0..(MaxLen + 1), rank(v)) :
                    \A j \in 1..rank(v) : b[j] \in {1, v.dims[j], v.dims[j] + 1}}

\* A zip or an assignment: the view is kept, the pairs are recorded.
Traverses(op, r, b, m) ==
    /\ steps' = steps + 1
    /\ last' = [NoOp EXCEPT !.op = op, !.src = cur, !.ok = r.ok, !.mem = mem,
                            !.shape = b, !.pairs = r.pairs]
    /\ cur' = cur
    /\ mem' = m

ZipWith ==
    Running /\
    \E b \in SourceShapes(cur) : Traverses("zip_with", zip_with(cur, b), b, mem)

Assign ==
    Running /\
    \E b \in SourceShapes(cur) :
        LET r == assign(mem, cur, b) IN Traverses("assign", r, b, r.mem)

Next ==
    \/ AxisAt
    \/ At
    \/ SplitAxisAt
    \/ SplitAt
    \/ Permute
    \/ Transpose
    \/ Reorder
    \/ Reshape
    \/ Flatten
    \/ Row
    \/ Col
    \/ Diag
    \/ ViewOp
    \/ IndexOp
    \/ IndexMut
    \/ GetUnchecked
    \/ Contains
    \/ ZipWith
    \/ Assign

Spec == Init /\ [][Next]_vars

\* ------------------------------------------------------------ properties
\* Every in-bounds index tuple of a view maps into the allocation.
InAllocation(v) ==
    \A k \in 1..len(v) : Offsets(v)[k] >= 0 /\ Offsets(v)[k] < Len(mem)

\* C1: starting from a Dense view over the whole allocation, after any
\* chain of successful view transforms every in-bounds index tuple of every
\* view returned (both halves of a split included) maps to an offset
\* base + sum(idx[i] * stride(i)) inside [0, len) of the allocation.
C1_OffsetsInAllocation ==
    /\ InAllocation(cur)
    /\ \A j \in 1..Len(last.views) : InAllocation(last.views[j])

\* A Strided view with a shifted base pointer, reached by two transforms,
\* the second one applied to a view that was itself shifted.
C1_Witness ==
    /\ steps = 2
    /\ last.op = "permute" /\ last.ok
    /\ last.src.ptr > 0
    /\ cur.layout = "Strided" /\ len(cur) > 1

SomeOutOfRange(v, idx) == \E j \in 1..rank(v) : idx[j] >= v.dims[j]

SomeInvalid(v, comps) == \E j \in 1..rank(v) : ~CompValid(comps[j], v.dims[j])

\* C2: checked element access (index, index_mut) and compound indexing
\* (view, view_mut) validate every component against the extent of its axis
\* first: if any single component is out of range the operation panics, no
\* reference or view is produced and no element is read or written.
C2_InvalidComponentPanics ==
    /\ last.op \in {"index", "index_mut"} /\ SomeOutOfRange(last.src, last.idx)
           => ~last.ok /\ last.off = -1 /\ mem = last.mem
    /\ last.op = "view" /\ SomeInvalid(last.src, last.comps)
           => ~last.ok /\ last.views = <<>> /\ mem = last.mem /\ cur = last.src

\* A write through an index whose first component is in range and whose
\* last one is not.
C2_Witness ==
    /\ last.op = "index_mut"
    /\ rank(last.src) >= 2
    /\ last.idx[1] < last.src.dims[1]
    /\ last.idx[rank(last.src)] >= last.src.dims[rank(last.src)]
    /\ ~last.ok

\* C3: for every view, Dense or Strided, and every index within its
\* bounds, get_unchecked references the same element (the same offset, so
\* the same value) as the checked index operator.
C3_UncheckedAgreesWithChecked ==
    last.op = "get_unchecked" /\ InBounds(last.src, last.idx)
        => /\ last.ok
           /\ index(last.src, last.idx).ok
           /\ last.off = index(last.src, last.idx).off
           /\ mem[last.off + 1] = mem[index(last.src, last.idx).off + 1]

\* An unchecked access to an element of a Strided view that is not its
\* first.
C3_Witness ==
    /\ last.op = "get_unchecked"
    /\ InBounds(last.src, last.idx)
    /\ last.src.layout = "Strided" /\ ~is_contiguous(last.src)
    /\ last.off > last.src.ptr

\* The strides of a target shape are drawn from the distances between the
\* elements of the view.
Distances(v) == {0} \cup {Offsets(v)[k] - Offsets(v)[1] : k \in 1..len(v)}

\* The strides of a view admit a shape of its length when some strides for
\* that shape visit the same elements in the same row-major order.
Admits(v, shape) ==
    \E s \in SeqsOfLen(Distances(v), Len(shape)) :
        Offsets(MkView(v.ptr, shape, s, "Strided")) = Offsets(v)

NoneInferred(shape) == \A j \in 1..Len(shape) : shape[j] # UsizeMax

\* C4: reshape to a shape given in full succeeds if and only if the product
\* of its dimensions equals the view's len() and the current strides admit
\* the shape (a Dense view admits every shape of equal length); in every
\* other case it panics; either way the allocation is left as it was, and
\* after a panic the caller holds the source view unchanged.
C4_ReshapeSucceedsIffAdmitted ==
    last.op = "reshape" /\ NoneInferred(last.shape)
        => /\ last.ok <=> /\ Prod(last.shape) = len(last.src)
                          /\ Admits(last.src, last.shape)
           /\ last.src.layout = "Dense"
                  => (last.ok <=> Prod(last.shape) = len(last.src))
           /\ last.ok => /\ cur.dims = last.shape
                         /\ cur.layout = last.src.layout
                         /\ Offsets(cur) = Offsets(last.src)
           /\ ~last.ok => last.views = <<>> /\ cur = last.src
           /\ mem = last.mem

\* A Strided view over memory that is not contiguous, reshaped along a
\* compatible boundary to a different shape.
C4_Witness ==
    /\ last.op = "reshape" /\ last.ok
    /\ NoneInferred(last.shape)
    /\ last.src.layout = "Strided" /\ ~is_contiguous(last.src)
    /\ len(last.src) > 2
    /\ cur.dims # last.src.dims

\* C5: in reshape a dimension given as usize::MAX is inferred as len()
\* divided by the product of the other dimensions, the view keeping its
\* row-major element sequence ([2,3] reshaped with [usize::MAX, 2] becomes
\* [3,2]); reshape panics if more than one dimension is usize::MAX or if
\* len() is not an exact multiple of the product of the others.
C5_InferredDimension ==
    last.op = "reshape" /\ ~NoneInferred(last.shape)
        => LET inferred == {j \in 1..Len(last.shape) : last.shape[j] = UsizeMax}
               others == Prod(Given(last.shape))
               exact == IF others = 0 THEN len(last.src) = 0
                        ELSE len(last.src) % others = 0
           IN  /\ Cardinality(inferred) > 1 => ~last.ok
               /\ ~exact => ~last.ok
               /\ last.ok =>
                      /\ Len(cur.dims) = Len(last.shape)
                      /\ \A j \in 1..Len(last.shape) :
                             cur.dims[j] = IF j \in inferred
                                           THEN len(last.src) \div others
                                           ELSE last.shape[j]
                      /\ Elems(mem, cur) = Elems(mem, last.src)
               /\ last.src.layout = "Dense" /\ Cardinality(inferred) = 1
                      /\ others > 0 /\ exact => last.ok
               /\ last.src = MkDense(0, <<2, 3>>) /\ last.shape = <<UsizeMax, 2>>
                      => last.ok /\ cur.dims = <<3, 2>>

C5_Witness ==
    /\ last.op = "reshape" /\ last.ok
    /\ last.src = MkDense(0, <<2, 3>>)
    /\ last.shape = <<UsizeMax, 2>>
    /\ cur.dims = <<3, 2>>
    /\ Elems(mem, cur) = <<1, 2, 3, 4, 5, 6>>

\* The view after transposing the result of the last transpose again.
TransposedTwice == transpose(cur).views[1]

\* C6 as stated: transposing a view of rank >= 2 twice restores the axis
\* order (dims and strides axis by axis) and the Dense-vs-Strided
\* classification of the source.
C6_TransposeTwiceRestoresLayout ==
    last.op = "transpose" /\ rank(last.src) >= 2
        => /\ TransposedTwice.dims = last.src.dims
           /\ Strides(TransposedTwice) = Strides(last.src)
           /\ TransposedTwice.layout = last.src.layout

\* C6 amended: transposing a view of rank >= 2 twice restores the axis
\* order (dims and strides axis by axis), the base pointer and the
\* contiguity of the memory; the classification of the result is Strided
\* whatever the source's, so it is restored for a Strided source only.
C6_TransposeTwiceRestoresAxes ==
    last.op = "transpose" /\ rank(last.src) >= 2
        => /\ last.ok /\ transpose(cur).ok
           /\ TransposedTwice.dims = last.src.dims
           /\ Strides(TransposedTwice) = Strides(last.src)
           /\ TransposedTwice.ptr = last.src.ptr
           /\ is_contiguous(TransposedTwice) = is_contiguous(last.src)
           /\ cur.layout = "Strided"
           /\ TransposedTwice.layout = "Strided"

\* A Dense view of rank 3 whose shape is no palindrome, transposed.
C6_Witness ==
    /\ last.op = "transpose" /\ last.ok
    /\ rank(last.src) = 3
    /\ last.src.layout = "Dense"
    /\ cur.dims # last.src.dims

\* The inverse of an axis order.
Inverse(order) ==
    [j \in 1..Len(order) |-> (CHOOSE i \in 1..Len(order) : order[i] = j - 1) - 1]

\* C7: for every view and every bijection p over 0..rank, permute(p)
\* followed by permute(inverse of p) gives a view with the same dims, the
\* same strides and the same row-major element sequence as the original;
\* only the layout type may differ.
C7_PermuteThenInverse ==
    last.op = "permute" /\ last.ok
        => \A c \in BOOLEAN :
               LET back == permute(cur, [const |-> c, order |-> Inverse(last.perm.order)])
               IN  /\ back.ok
                   /\ back.views[1].dims = last.src.dims
                   /\ Strides(back.views[1]) = Strides(last.src)
                   /\ Offsets(back.views[1]) = Offsets(last.src)
                   /\ Elems(mem, back.views[1]) = Elems(mem, last.src)

\* A cyclic permutation of the three axes of a view over memory that is
\* not contiguous: the permutation is not its own inverse.
C7_Witness ==
    /\ last.op = "permute" /\ last.ok
    /\ rank(last.src) = 3
    /\ Inverse(last.perm.order) # last.perm.order
    /\ ~is_contiguous(last.src)
    /\ len(last.src) > 2

\* An axis order is a bijection over 0..r-1 when it names each axis once.
Bijection(order, r) ==
    Len(order) = r /\ {order[j] : j \in 1..Len(order)} = 0..(r - 1)

\* C8: permute panics when the axis order is no bijection over 0..rank
\* (wrong length, an axis >= rank, a repeated axis); when it is one, the
\* result has dim(i) = source.dim(order[i]) and stride(i) =
\* source.stride(order[i]) for every i, and it keeps the input layout only
\* for a compile-time identity permutation, being Strided for any other,
\* the runtime identity included.
C8_PermuteReordersAxes ==
    last.op = "permute"
        => /\ last.ok <=> Bijection(last.perm.order, rank(last.src))
           /\ ~last.ok => last.views = <<>>
           /\ last.ok =>
                  /\ rank(cur) = rank(last.src)
                  /\ \A i \in 0..(rank(cur) - 1) :
                         /\ dim(cur, i) = dim(last.src, last.perm.order[i + 1])
                         /\ stride(cur, i) = stride(last.src, last.perm.order[i + 1])
                  /\ cur.ptr = last.src.ptr
                  /\ cur.layout = IF last.perm.const /\ IsIdentity(last.perm.order)
                                  THEN last.src.layout ELSE "Strided"

\* The runtime identity [0, 1] applied to a Dense view gives a Strided one.
C8_Witness ==
    /\ last.op = "permute" /\ last.ok
    /\ last.perm = [const |-> FALSE, order |-> <<0, 1>>]
    /\ last.src.layout = "Dense"
    /\ cur.layout = "Strided"

\* C9: split_axis_at(axis, mid) on an axis of extent N with mid <= N
\* returns two views that agree with the source on every other axis, have
\* extents mid and N - mid on that axis, the second one's base shifted by
\* mid * stride(axis), so that element [.., k, ..] of the source is element
\* k of the first view for k < mid and element k - mid of the second for
\* k >= mid; it panics if mid > N or the axis is out of bounds.  split_at
\* is the same on the first axis.
C9_SplitAxisAt ==
    last.op \in {"split_axis_at", "split_at"}
        => LET src == last.src
               a == IF last.op = "split_at" THEN 0 ELSE last.axis.n
               mid == last.index
               lo == last.views[1]
               hi == last.views[2]
           IN  IF a >= rank(src) \/ mid > Extent(src, a)
               THEN ~last.ok /\ last.views = <<>>
               ELSE /\ last.ok /\ Len(last.views) = 2
                    /\ rank(lo) = rank(src) /\ rank(hi) = rank(src)
                    /\ \A i \in 0..(rank(src) - 1) :
                           /\ i # a => dim(lo, i) = dim(src, i) /\ dim(hi, i) = dim(src, i)
                           /\ stride(lo, i) = stride(src, i)
                           /\ stride(hi, i) = stride(src, i)
                    /\ dim(lo, a) = mid
                    /\ dim(hi, a) = dim(src, a) - mid
                    /\ lo.ptr = src.ptr
                    /\ hi.ptr = src.ptr + mid * stride(src, a)
                    /\ \A k \in 1..len(src) :
                           LET idx == RowMajorIdx(src.dims, k - 1)
                               off == src.ptr + Offset(src, idx)
                           IN  IF idx[a + 1] < mid
                               THEN InBounds(lo, idx) /\ lo.ptr + Offset(lo, idx) = off
                               ELSE LET rel == [idx EXCEPT ![a + 1] = idx[a + 1] - mid]
                                    IN  InBounds(hi, rel) /\ hi.ptr + Offset(hi, rel) = off

\* A split strictly inside the first axis of a view of rank >= 2, the
\* caller going on with the second view.
C9_Witness ==
    /\ last.op = "split_axis_at" /\ last.ok
    /\ rank(last.src) >= 2
    /\ last.axis.n = 0
    /\ stride(last.src, 0) > 1
    /\ last.index > 0 /\ last.index < dim(last.src, 0)
    /\ cur = last.views[2]

\* The elements v[i, 0..C) and v[0..R, j] of a rank-2 view.
RowElems(m, v, i) ==
    [j \in 1..v.dims[2] |-> m[v.ptr + Offset(v, <<i, j - 1>>) + 1]]

ColElems(m, v, j) ==
    [i \in 1..v.dims[1] |-> m[v.ptr + Offset(v, <<i - 1, j>>) + 1]]

\* C10: for a rank-2 view with dims (R, C), row(i) for i < R is the
\* length-C sequence v[i, 0..C) and equals axis_at(axis 0, index i) element
\* for element; col(j) for j < C is the length-R sequence v[0..R, j]; row,
\* col and diag panic when the rank is not 2 or the index is out of range.
\* For the [2,3] view holding 1..6: row(0) = [1,2,3], col(1) = [2,5],
\* axis_at(0, 1) = row(1).
C10_RowColDiag ==
    LET src == last.src
        i == last.index
    IN  /\ last.op = "row" =>
               IF rank(src) # 2 \/ i >= Extent(src, 0) THEN ~last.ok
               ELSE /\ last.ok
                    /\ cur.dims = <<dim(src, 1)>>
                    /\ Elems(mem, cur) = RowElems(mem, src, i)
                    /\ \A c \in BOOLEAN :
                           LET ax == axis_at(src, [const |-> c, n |-> 0], i)
                           IN  ax.ok /\ Elems(mem, ax.views[1]) = Elems(mem, cur)
        /\ last.op = "col" =>
               IF rank(src) # 2 \/ i >= Extent(src, 1) THEN ~last.ok
               ELSE /\ last.ok
                    /\ cur.dims = <<dim(src, 0)>>
                    /\ Elems(mem, cur) = ColElems(mem, src, i)
        /\ last.op = "diag" /\ (rank(src) # 2 \/ i > Extent(src, 1) \/ -i > Extent(src, 0))
               => ~last.ok
        /\ src = MkDense(0, <<2, 3>>) =>
               /\ last.op = "row" /\ i = 0 => Elems(mem, cur) = <<1, 2, 3>>
               /\ last.op = "col" /\ i = 1 => Elems(mem, cur) = <<2, 5>>
               /\ last.op = "row" /\ i = 1 =>
                      Elems(mem, cur) = Elems(mem, axis_at(src, Const(0), 1).views[1])

\* row(1) of the [2,3] view holding 1..6.
C10_Witness ==
    /\ last.op = "row" /\ last.ok
    /\ last.src = MkDense(0, <<2, 3>>)
    /\ last.index = 1
    /\ Elems(mem, cur) = <<4, 5, 6>>

\* The index tuples within the bounds of a view, and whether some element
\* of the view equals x.
InBoundsIndexes(v) == {i \in SeqsOfLen(0..MaxLen, rank(v)) : InBounds(v, i)}

SomeElementEquals(m, v, x) ==
    \E i \in InBoundsIndexes(v) : m[v.ptr + Offset(v, i) + 1] = x

\* The same view with its strides spelled out, classified Strided.
Materialized(v) == MkView(v.ptr, v.dims, Strides(v), "Strided")

\* C11: contains(x) is true exactly when some element of the view within
\* its bounds equals x, whichever path the search takes: the flattened one
\* of a Dense view, the linear scan of a Strided view of rank below 2, or
\* the recursion over the first axis of a Strided view of rank 2 or more.
\* The same view classified Strided gives the same answer, and so does the
\* transpose of a Dense view.
C11_ContainsOnEveryPath ==
    last.op = "contains"
        => /\ last.found <=> SomeElementEquals(mem, last.src, last.x)
           /\ contains(mem, Materialized(last.src), last.x) = last.found
           /\ contains(mem, transpose(last.src).views[1], last.x) = last.found
           /\ mem = last.mem /\ cur = last.src

\* A Strided view of rank 2 that leaves out part of the allocation is
\* searched for a value held only by an element it leaves out.
C11_Witness ==
    /\ last.op = "contains" /\ ~last.found
    /\ last.src.layout = "Strided" /\ rank(last.src) = 2 /\ len(last.src) >= 4
    /\ \E k \in 1..Len(mem) : mem[k] = last.x

\* On some axis the extents of the view and of the source differ and
\* neither is 1, and the source is not of rank 0.
Incompatible(a, b) ==
    /\ b # <<>>
    /\ \E j \in 1..Len(a) : a[j] # b[j] /\ a[j] # 1 /\ b[j] # 1

\* C12: assign panics when the shape of the source is not
\* broadcast-compatible with the shape of the view, and it does so before
\* any element is written: every element of the view, and the whole
\* allocation, holds its previous value afterwards.
C12_AssignPanicsBeforeWriting ==
    last.op = "assign" /\ Incompatible(last.src.dims, last.shape)
        => /\ ~last.ok
           /\ Elems(mem, last.src) = Elems(last.mem, last.src)
           /\ mem = last.mem
           /\ cur = last.src

\* A view of several elements is assigned a source of several items whose
\* shape differs from the view's on one axis only.
C12_Witness ==
    /\ last.op = "assign" /\ ~last.ok
    /\ Incompatible(last.src.dims, last.shape)
    /\ rank(last.src) = 2 /\ len(last.src) >= 4
    /\ last.shape[1] = last.src.dims[1] /\ Prod(last.shape) > len(last.src)

\* The source is replicated against the view: it has rank 0 or, on every
\* axis, the extent of the view or 1.
Replicated(a, b) == b = <<>> \/ \A j \in 1..Len(a) : b[j] = a[j] \/ b[j] = 1

\* The index of the source that the index i of the view is paired with:
\* position 0 on an axis where the source has extent 1, i elsewhere.
PairedIndex(b, i) == [j \in 1..Len(b) |-> IF b[j] = 1 THEN 0 ELSE i[j]]

\* C13: when a view is zipped with (or assigned from) an expression whose
\* extent is 1 on axes where the view's is d, every position of the view
\* is paired, once, with the item of the expression at position 0 on
\* those axes and at the same position on the others; an expression of
\* rank 0 is paired with every element of the view.  An assignment then
\* leaves every element of the view holding the item it is paired with
\* and every other element of the allocation as it was.
C13_BroadcastPairsEveryPosition ==
    last.op \in {"zip_with", "assign"} /\ Replicated(last.src.dims, last.shape)
        => /\ last.ok
           /\ Len(last.pairs) = len(last.src)
           /\ \A k \in 1..len(last.src) :
                  LET i == RowMajorIdx(last.src.dims, k - 1)
                      q == last.pairs[k][2]
                  IN  /\ last.pairs[k][1] = last.src.ptr + Offset(last.src, i)
                      /\ q >= 0 /\ q < Prod(last.shape)
                      /\ RowMajorIdx(last.shape, q) = PairedIndex(last.shape, i)
                      /\ last.op = "assign" => mem[last.pairs[k][1] + 1] = SourceItem(q)
           /\ \A o \in 1..Len(mem) :
                  (last.op = "zip_with" \/ \A k \in 1..len(last.src) : Offsets(last.src)[k] + 1 # o)
                      => mem[o] = last.mem[o]

\* A Strided view of rank 2 is zipped with an expression that has a single
\* row, or a single column, of several items.
C13_Witness ==
    /\ last.op = "zip_with" /\ last.ok
    /\ last.src.layout = "Strided" /\ rank(last.src) = 2 /\ Len(last.shape) = 2
    /\ \E j \in 1..2 : last.shape[j] = 1 /\ last.src.dims[j] >= 2
    /\ \E j \in 1..2 : last.shape[j] >= 2 /\ last.src.dims[j] = last.shape[j]

\* C14: flatten of a Dense view succeeds and returns a Dense view of rank
\* 1 whose length is the product of the dimensions of the source and
\* whose element k is the element of the source at the k-th index tuple in
\* row-major order.
C14_FlattenDense ==
    last.op = "flatten" /\ last.src.layout = "Dense"
        => /\ last.ok
           /\ cur = last.views[1]
           /\ cur.layout = "Dense"
           /\ cur.dims = <<Prod(last.src.dims)>>
           /\ \A k \in 1..Prod(last.src.dims) :
                  mem[cur.ptr + Offset(cur, <<k - 1>>) + 1]
                      = mem[last.src.ptr
                            + Offset(last.src, RowMajorIdx(last.src.dims, k - 1)) + 1]
           /\ mem = last.mem

\* A Dense view of rank 2, with two rows and two columns at least, that
\* does not start at the head of the allocation, is flattened.
C14_Witness ==
    /\ last.op = "flatten" /\ last.ok
    /\ last.src.layout = "Dense" /\ rank(last.src) = 2
    /\ last.src.dims[1] >= 2 /\ last.src.dims[2] >= 2
    /\ last.src.ptr > 0

\* C15 as stated: flatten of a view whose memory is not contiguous panics
\* and returns no view.
C15_NonContiguousFlattenPanics ==
    last.op = "flatten" /\ ~is_contiguous(last.src)
        => ~last.ok /\ last.views = <<>>

\* The elements of a view, in row-major order, are a constant distance
\* apart.
UniformlyStrided(v) ==
    \E s \in Distances(v) :
        \A k \in 1..len(v) : Offsets(v)[k] = v.ptr + (k - 1) * s

\* C15, amended: flatten panics at the call, returning no view and leaving
\* the caller with the source, exactly when the elements of the view are
\* not uniformly strided; a uniformly strided view, contiguous or not, is
\* flattened to a view of rank 1 over the same elements in the same order.
C15_FlattenPanicsUnlessUniformlyStrided ==
    last.op = "flatten"
        => /\ last.ok <=> UniformlyStrided(last.src)
           /\ is_contiguous(last.src) => last.ok
           /\ ~last.ok => last.views = <<>> /\ cur = last.src
           /\ last.ok => /\ rank(cur) = 1
                         /\ Offsets(cur) = Offsets(last.src)
           /\ mem = last.mem

\* A view of rank 2 whose rows are further apart than their length is
\* flattened, and the call panics.
C15_Witness ==
    /\ last.op = "flatten" /\ ~last.ok
    /\ rank(last.src) = 2 /\ len(last.src) >= 4
    /\ ~is_contiguous(last.src)

\* The operations that return views, and the last one applied to another
\* source.
Transforms == {"axis_at", "at", "split_axis_at", "split_at", "permute", "transpose",
               "reorder", "reshape", "flatten", "row", "col", "diag", "view"}

Applied(l, v) ==
    CASE l.op = "axis_at" -> axis_at(v, l.axis, l.index)
      [] l.op = "at" -> at(v, l.index)
      [] l.op = "split_axis_at" -> split_axis_at(v, l.axis, l.index)
      [] l.op = "split_at" -> split_at(v, l.index)
      [] l.op = "permute" -> permute(v, l.perm)
      [] l.op = "transpose" -> transpose(v)
      [] l.op = "reorder" -> reorder(v)
      [] l.op = "reshape" -> reshape(v, l.shape)
      [] l.op = "flatten" -> flatten(v)
      [] l.op = "row" -> row(v, l.index)
      [] l.op = "col" -> col(v, l.index)
      [] l.op = "diag" -> diag(v, l.index)
      [] l.op = "view" -> view(v, l.comps)
      [] OTHER -> Panic

\* The operations said to keep the Dense classification of their source.
KeepsDense(l) ==
    \/ l.op \in {"at", "split_at", "row", "reshape", "flatten"}
    \/ l.op \in {"axis_at", "split_axis_at"} /\ l.axis = Const(0)
    \/ l.op = "permute" /\ l.perm.const /\ IsIdentity(l.perm.order)

\* C16: a view classified Dense is contiguous row-major.  The strides a
\* Dense view derives from its dimensions are compared with the strides
\* the same operation yields when the source carries its strides
\* explicitly: on every axis of more than one position they are the
\* product of the later dimensions, the view built from them is
\* contiguous and visits the same elements.  The operations listed keep a
\* Dense source Dense, and only a Dense source gives a Dense result.
C16_DenseIsRowMajor ==
    last.op \in Transforms /\ last.ok
        => LET shadow == Applied(last, Materialized(last.src))
           IN  /\ shadow.ok /\ Len(shadow.views) = Len(last.views)
               /\ last.src.layout = "Dense" /\ KeepsDense(last)
                      => \A n \in 1..Len(last.views) : last.views[n].layout = "Dense"
               /\ \A n \in 1..Len(last.views) :
                      LET w == last.views[n]
                          t == shadow.views[n]
                      IN  w.layout = "Dense"
                            => /\ last.src.layout = "Dense"
                               /\ t.layout = "Strided"
                               /\ t.ptr = w.ptr /\ t.dims = w.dims
                               /\ is_contiguous(w) /\ is_contiguous(t)
                               /\ Offsets(t) = Offsets(w)
                               /\ \A i \in 0..(rank(w) - 1) :
                                      /\ stride(w, i) = Prod(SubSeq(w.dims, i + 2, rank(w)))
                                      /\ dim(w, i) > 1 /\ ~is_empty(w)
                                             => stride(t, i) = stride(w, i)

\* The second part of a Dense view of rank 2, itself the second part of a
\* larger one, split on the first axis: a Dense view of several rows that
\* starts inside the allocation.
C16_Witness ==
    /\ steps = 2 /\ last.ok /\ last.op = "split_axis_at"
    /\ last.axis = Const(0) /\ last.src.ptr > 0
    /\ cur = last.views[2] /\ cur.layout = "Dense"
    /\ rank(cur) = 2 /\ cur.dims[1] >= 1 /\ cur.dims[2] >= 2
    /\ cur.ptr > last.src.ptr

====
